---- MODULE Spec2Model ----
(***************************************************************************)
(* Mercurial signatures (primary and dual variant) and the delegatable     *)
(* anonymous credential scheme built on them.                              *)
(*                                                                         *)
(* The pairing groups are modelled by discrete logarithms: a point of G1   *)
(* or G2 is [g |-> 1 or 2, d |-> its logarithm to the base p or phat], an  *)
(* element of GT is its logarithm to the base e(phat, p).  Scalar          *)
(* multiplication, the group law and the pairing are then exact, over a    *)
(* prime group order r that is small instead of the 254-bit curve.r.       *)
(***************************************************************************)
EXTENDS Integers, Sequences, FiniteSets

VARIABLES
    r,                    \* curve.r, the prime order of G1, G2 and GT
    \* ---- the caller of one signature scheme (the unit tests' locals) ----
    scheme,               \* "primary" (MercurialSignatureScheme) or "dual"
    public_key,
    secret_key,
    messages,
    signature,
    rho,                  \* the caller's conversion factor, -1 before it is drawn
    converted_public_key,
    mu,                   \* the caller's message factor, -1 before it is drawn
    modified_messages,
    origin,               \* what produced `signature`
    forged,               \* index of the message entry replaced after signing
    result,               \* what the last verify returned ("none" before)
    outcome,              \* "ok", or "raised" once an operation raised
    zero_drawn,           \* the last operation drew y or psi equal to zero
    \* ---- one DelegatableAnonCredScheme instance ----
    key_length,
    initial_pk,
    initial_sk,
    \* ---- the caller of the credential scheme ----
    nym_list,             \* cred_chain[0], the list issue_next changes in place
    sig_list,             \* cred_chain[1], likewise
    user,                 \* the pseudonym and secret key of the user about to join
    holder_sk,            \* the secret key its holder keeps for the last pseudonym
    chain_result,         \* what the last verify_chain returned ("none" before)
    raised,               \* "no", or how the last credential operation raised
    used,                 \* the scheme the last operation used for each link
    legal,                \* every issue so far got the holder's key and drew no zero
    scalars,              \* the scalars the last issue_next passed on, link by link,
                          \* and the caller's sk list as the call left it
    \* ---- the caller of key_gen and nym_gen ----
    keys,                 \* the caller's two key pairs, from key_gen or nym_gen
    rounds                \* how many times nym_gen has been applied to them

sigvars == <<scheme, public_key, secret_key, messages, signature, rho,
             converted_public_key, mu, modified_messages, origin, forged, result,
             outcome, zero_drawn>>

dacvars == <<key_length, initial_pk, initial_sk, nym_list, sig_list, user, holder_sk,
             chain_result, raised, used, legal, scalars>>

nymvars == <<keys, rounds>>

vars == <<r, sigvars, dacvars, nymvars>>

(***************************************************************************)
(* Bounds of the exploration.                                              *)
(***************************************************************************)
MaxEll == 2
MaxKeySpace == 27
MaxDacKeySpace == 9
MaxNymRounds == 2
MaxChain == 3
MaxCells == 4

Orders == {3, 5}

RECURSIVE Pow(_, _)
Pow(b, n) == IF n = 0 THEN 1 ELSE b * Pow(b, n - 1)

Sizes == {s \in Orders \X (1..MaxEll) : Pow(s[1], s[2]) <= MaxKeySpace}

DacOrders == {3}

DacSizes == {s \in DacOrders \X (1..MaxEll) : Pow(s[1], s[2]) <= MaxDacKeySpace}

(***************************************************************************)
(* The bn254 library, as the schemes use it.                               *)
(***************************************************************************)
p == [g |-> 1, d |-> 1]
phat == [g |-> 2, d |-> 1]

Mul(k, P) == [g |-> P.g, d |-> (k * P.d) % r]
Add(P, Q) == [g |-> P.g, d |-> (P.d + Q.d) % r]
e(P, Q) == (P.d * Q.d) % r
GTMul(a, b) == (a + b) % r

G1 == {[g |-> 1, d |-> k] : k \in 0..(r - 1)}
G2 == {[g |-> 2, d |-> k] : k \in 0..(r - 1)}

random_zp == 0..(r - 1)

invmodp_zero(a, m) == IF a % m = 0 THEN [err |-> FALSE, v |-> 0]
                      ELSE [err |-> FALSE, v |-> CHOOSE x \in 1..(m - 1) : (a * x) % m = 1]

\* zero has no inverse modulo a prime: the call raises instead of returning
invmodp(a, m) == IF a % m = 0 THEN [err |-> TRUE, v |-> 0]
                 ELSE [err |-> FALSE, v |-> CHOOSE x \in 1..(m - 1) : (a * x) % m = 1]

Min(a, b) == IF a < b THEN a ELSE b

\* zip(xs, ys) stops at the shorter list
zip(xs, ys) == [i \in 1..Min(Len(xs), Len(ys)) |-> <<xs[i], ys[i]>>]

\* reduce without an initial value raises TypeError on an empty list
reduce_raises(ps) == Len(ps) = 0

RECURSIVE reduce_add(_)
reduce_add(ps) == IF Len(ps) = 1 THEN ps[1] ELSE Add(reduce_add(SubSeq(ps, 1, Len(ps) - 1)), ps[Len(ps)])

RECURSIVE reduce_mul(_)
reduce_mul(ts) == IF Len(ts) = 1 THEN ts[1] ELSE GTMul(reduce_mul(SubSeq(ts, 1, Len(ts) - 1)), ts[Len(ts)])

(***************************************************************************)
(* MercurialSignatureScheme and MercurialSignatureDual.  The random        *)
(* scalars an operation draws are its extra arguments.                     *)
(***************************************************************************)
key_gen_primary(xs) == [pk |-> [i \in 1..Len(xs) |-> Mul(xs[i], phat)], sk |-> xs]

key_gen_dual(xs) == [pk |-> [i \in 1..Len(xs) |-> Mul(xs[i], p)], sk |-> xs]

key_gen(s, xs) == IF s = "primary" THEN key_gen_primary(xs) ELSE key_gen_dual(xs)

sign_primary_no_inverse(sk, m, y) ==
    LET zs == zip(sk, m)
        z == Mul(y, reduce_add([i \in 1..Len(zs) |-> Mul(zs[i][1], zs[i][2])]))
        y_inv == invmodp(y, r)
    IN  IF reduce_raises(zs) THEN [err |-> TRUE, sig |-> <<>>]
        ELSE [err |-> y_inv.err, sig |-> <<z, Mul(y, p), Mul(y, phat)>>]

sign_primary(sk, m, y) ==
    LET zs == zip(sk, m)
        z == Mul(y, reduce_add([i \in 1..Len(zs) |-> Mul(zs[i][1], zs[i][2])]))
        y_inv == invmodp(y, r)
    IN  IF reduce_raises(zs) THEN [err |-> TRUE, sig |-> <<>>]
        ELSE [err |-> y_inv.err, sig |-> <<z, Mul(y_inv.v, p), Mul(y_inv.v, phat)>>]

sign_dual(sk, m, y) ==
    LET zs == zip(sk, m)
        z == Mul(y, reduce_add([i \in 1..Len(zs) |-> Mul(zs[i][1], zs[i][2])]))
        y_inv == invmodp(y, r)
    IN  IF reduce_raises(zs) THEN [err |-> TRUE, sig |-> <<>>]
        ELSE [err |-> y_inv.err, sig |-> <<z, Mul(y_inv.v, phat), Mul(y_inv.v, p)>>]

sign(s, sk, m, y) == IF s = "primary" THEN sign_primary(sk, m, y) ELSE sign_dual(sk, m, y)

verify_primary(pk, m, sig) ==
    LET z == sig[1]
        y_inv_p == sig[2]
        y_inv_phat == sig[3]
        zs == zip(pk, m)
        q1 == reduce_mul([i \in 1..Len(zs) |-> e(zs[i][1], zs[i][2])])
    IN  q1 = e(y_inv_phat, z) /\ e(phat, y_inv_p) = e(y_inv_phat, p)

verify_dual_representation_only(pk, m, sig) ==
    LET y_inv_p == sig[2]
        y_inv_phat == sig[3]
    IN  e(y_inv_p, p) = e(phat, y_inv_phat)

verify_dual(pk, m, sig) ==
    LET z == sig[1]
        y_inv_p == sig[2]
        y_inv_phat == sig[3]
        zs == zip(pk, m)
        q1 == reduce_mul([i \in 1..Len(zs) |-> e(zs[i][2], zs[i][1])])
    IN  q1 = e(z, y_inv_phat) /\ e(y_inv_p, p) = e(phat, y_inv_phat)

verify(s, pk, m, sig) == IF s = "primary" THEN verify_primary(pk, m, sig) ELSE verify_dual(pk, m, sig)

\* rho * xi on Python integers: the product is not reduced modulo r
convert_secret_key(sk, rh) == [i \in 1..Len(sk) |-> rh * sk[i]]

convert_public_key_shifted(pk, rh) == [i \in 1..Len(pk) |-> Add(pk[i], Mul(rh, p))]

convert_public_key(pk, rh) == [i \in 1..Len(pk) |-> Mul(rh, pk[i])]

convert_signature_no_rho(pk, m, sig, rh, psi) ==
    LET psi_inv == invmodp(psi, r)
    IN  [err |-> psi_inv.err,
         sig |-> <<Mul(psi, sig[1]), Mul(psi_inv.v, sig[2]), Mul(psi_inv.v, sig[3])>>]

convert_signature(pk, m, sig, rh, psi) ==
    LET psi_inv == invmodp(psi, r)
    IN  [err |-> psi_inv.err,
         sig |-> <<Mul(psi * rh, sig[1]), Mul(psi_inv.v, sig[2]), Mul(psi_inv.v, sig[3])>>]

change_representation_no_psi(pk, m, sig, mf, psi) ==
    LET psi_inv == invmodp(psi, r)
    IN  [err |-> psi_inv.err,
         msg |-> [i \in 1..Len(m) |-> Mul(mf, m[i])],
         sig |-> <<Mul(mf, sig[1]), Mul(psi_inv.v, sig[2]), Mul(psi_inv.v, sig[3])>>]

change_representation(pk, m, sig, mf, psi) ==
    LET psi_inv == invmodp(psi, r)
    IN  [err |-> psi_inv.err,
         msg |-> [i \in 1..Len(m) |-> Mul(mf, m[i])],
         sig |-> <<Mul(psi * mf, sig[1]), Mul(psi_inv.v, sig[2]), Mul(psi_inv.v, sig[3])>>]

\* the group hash_message lands in: G1 for the primary scheme, G2 for the dual
hash_message(s) == IF s = "primary" THEN G1 ELSE G2

(***************************************************************************)
(* Sequences of a given length over a set.                                 *)
(***************************************************************************)
Tuples(S, n) == [1..n -> S]

NoSig == <<>>

\* no issue_next has run: nothing was rescaled, converted or re-keyed
NoScalars == [scaled |-> <<>>, converted |-> <<>>, sk_rho |-> -1, sk |-> <<>>]

NoSigCaller ==
    /\ scheme = "primary"
    /\ public_key = <<>>
    /\ secret_key = <<>>
    /\ messages = <<>>
    /\ signature = NoSig
    /\ rho = -1
    /\ converted_public_key = <<>>
    /\ mu = -1
    /\ modified_messages = <<>>
    /\ origin = "none"
    /\ forged = 0
    /\ result = "none"
    /\ outcome = "ok"
    /\ zero_drawn = FALSE

NoChain ==
    /\ nym_list = <<>>
    /\ sig_list = <<>>
    /\ user = <<>>
    /\ holder_sk = <<>>
    /\ chain_result = "none"
    /\ raised = "no"
    /\ used = <<>>
    /\ legal = TRUE
    /\ scalars = NoScalars

NoDac ==
    /\ key_length = 0
    /\ initial_pk = <<>>
    /\ initial_sk = <<>>
    /\ NoChain

NoNym ==
    /\ keys = <<>>
    /\ rounds = 0

(***************************************************************************)
(* One caller of one scheme: key_gen, hash the messages, sign, then        *)
(* convert or change the representation, verify, replace a message entry   *)
(* and verify again.                                                       *)
(***************************************************************************)
InitSig ==
    /\ r \in Orders
    /\ scheme \in {"primary", "dual"}
    /\ public_key = <<>>
    /\ secret_key = <<>>
    /\ messages = <<>>
    /\ signature = NoSig
    /\ rho = -1
    /\ converted_public_key = <<>>
    /\ mu = -1
    /\ modified_messages = <<>>
    /\ origin = "none"
    /\ forged = 0
    /\ result = "none"
    /\ outcome = "ok"
    /\ zero_drawn = FALSE
    /\ NoDac
    /\ NoNym

KeyGen ==
    /\ outcome = "ok" /\ public_key = <<>>
    /\ \E ell \in 1..MaxEll :
         /\ <<r, ell>> \in Sizes
         /\ \E xs \in Tuples(random_zp, ell) :
              LET k == key_gen(scheme, xs)
              IN  /\ public_key' = k.pk
                  /\ secret_key' = k.sk
    /\ UNCHANGED <<dacvars, nymvars>>
    /\ UNCHANGED <<r, scheme, messages, signature, rho, converted_public_key, mu,
                   modified_messages, origin, forged, result, outcome, zero_drawn>>

HashMessages ==
    /\ outcome = "ok" /\ public_key # <<>> /\ messages = <<>>
    /\ \E ms \in Tuples(hash_message(scheme), Len(public_key)) : messages' = ms
    /\ UNCHANGED <<dacvars, nymvars>>
    /\ UNCHANGED <<r, scheme, public_key, secret_key, signature, rho, converted_public_key,
                   mu, modified_messages, origin, forged, result, outcome, zero_drawn>>

Sign ==
    /\ outcome = "ok" /\ messages # <<>> /\ origin = "none"
    /\ \E y \in random_zp :
         LET s == sign(scheme, secret_key, messages, y)
         IN  /\ zero_drawn' = (y = 0)
             /\ IF s.err
                THEN outcome' = "raised" /\ UNCHANGED <<signature, origin>>
                ELSE signature' = s.sig /\ origin' = "sign" /\ UNCHANGED outcome
    /\ UNCHANGED <<dacvars, nymvars>>
    /\ UNCHANGED <<r, scheme, public_key, secret_key, messages, rho,
                   converted_public_key, mu, modified_messages, forged, result>>

ConvertPublicKey ==
    /\ outcome = "ok" /\ origin = "sign" /\ rho = -1 /\ forged = 0
    /\ \E rh \in random_zp :
         /\ rho' = rh
         /\ converted_public_key' = convert_public_key(public_key, rh)
    /\ UNCHANGED <<dacvars, nymvars>>
    /\ UNCHANGED <<r, scheme, public_key, secret_key, messages, signature, mu,
                   modified_messages, origin, forged, result, outcome, zero_drawn>>

ConvertSignature ==
    /\ outcome = "ok" /\ origin = "sign" /\ rho # -1 /\ forged = 0
    /\ \E psi \in random_zp :
         LET c == convert_signature(public_key, messages, signature, rho, psi)
         IN  /\ zero_drawn' = (psi = 0)
             /\ IF c.err
                THEN outcome' = "raised" /\ UNCHANGED <<signature, origin>>
                ELSE signature' = c.sig /\ origin' = "convert" /\ UNCHANGED outcome
    /\ result' = "none"
    /\ UNCHANGED <<dacvars, nymvars>>
    /\ UNCHANGED <<r, scheme, public_key, secret_key, messages, rho,
                   converted_public_key, mu, modified_messages, forged>>

ChangeRepresentation ==
    /\ outcome = "ok" /\ origin = "sign" /\ rho = -1 /\ forged = 0
    /\ \E m \in random_zp, psi \in random_zp :
         LET c == change_representation(public_key, messages, signature, m, psi)
         IN  /\ zero_drawn' = (psi = 0)
             /\ mu' = m
             /\ IF c.err
                THEN outcome' = "raised" /\ UNCHANGED <<signature, modified_messages, origin>>
                ELSE /\ signature' = c.sig
                     /\ modified_messages' = c.msg
                     /\ origin' = "change_rep"
                     /\ UNCHANGED outcome
    /\ result' = "none"
    /\ UNCHANGED <<dacvars, nymvars>>
    /\ UNCHANGED <<r, scheme, public_key, secret_key, messages, rho,
                   converted_public_key, forged>>

\* a caller that signs a message whose length is not the key's
SignMismatched ==
    /\ outcome = "ok" /\ public_key # <<>> /\ messages = <<>> /\ origin = "none"
    /\ \E n \in (0..MaxEll) \ {Len(secret_key)} :
         \E ms \in Tuples(hash_message(scheme), n), y \in random_zp :
           LET s == sign(scheme, secret_key, ms, y)
           IN  /\ messages' = ms
               /\ zero_drawn' = (y = 0)
               /\ IF s.err
                  THEN outcome' = "raised" /\ UNCHANGED signature
                  ELSE signature' = s.sig /\ UNCHANGED outcome
    /\ origin' = "sign_mismatched"
    /\ UNCHANGED <<dacvars, nymvars>>
    /\ UNCHANGED <<r, scheme, public_key, secret_key, rho, converted_public_key, mu,
                   modified_messages, forged, result>>

\* the key and the message the caller verifies
VerifyKey == IF origin = "convert" THEN converted_public_key ELSE public_key

VerifyMessages == IF origin = "change_rep" THEN modified_messages ELSE messages

Verify ==
    /\ outcome = "ok" /\ origin # "none" /\ result = "none"
    /\ result' = IF verify(scheme, VerifyKey, VerifyMessages, signature) THEN "true" ELSE "false"
    /\ UNCHANGED <<dacvars, nymvars>>
    /\ UNCHANGED <<r, scheme, public_key, secret_key, messages, signature, rho,
                   converted_public_key, mu, modified_messages, origin, forged, outcome,
                   zero_drawn>>

Forge ==
    /\ outcome = "ok" /\ origin \in {"convert", "change_rep"} /\ forged = 0
    /\ result = "true"
    /\ \E i \in 1..Len(messages), m \in hash_message(scheme) :
         /\ m # VerifyMessages[i]
         /\ IF origin = "change_rep"
            THEN modified_messages' = [modified_messages EXCEPT ![i] = m] /\ UNCHANGED messages
            ELSE messages' = [messages EXCEPT ![i] = m] /\ UNCHANGED modified_messages
         /\ forged' = i
    /\ result' = "none"
    /\ UNCHANGED <<dacvars, nymvars>>
    /\ UNCHANGED <<r, scheme, public_key, secret_key, signature, rho,
                   converted_public_key, mu, origin, outcome, zero_drawn>>

NextSig ==
    \/ KeyGen
    \/ HashMessages
    \/ Sign
    \/ SignMismatched
    \/ ConvertPublicKey
    \/ ConvertSignature
    \/ ChangeRepresentation
    \/ Verify
    \/ Forge

SpecSig == InitSig /\ [][NextSig]_vars

(***************************************************************************)
(* DelegatableAnonCredScheme: its two schemes, key_gen and nym_gen.        *)
(***************************************************************************)
even_issuer_scheme == "dual"

odd_issuer_scheme == "primary"

\* __init__: the root key pair, from the draws xs
dac_init(xs) == key_gen(even_issuer_scheme, xs)

dac_key_gen(xe, xo) ==
    [even |-> key_gen(even_issuer_scheme, xe), odd |-> key_gen(odd_issuer_scheme, xo)]

nym_gen(even_pk, even_sk, odd_pk, odd_sk, even_rho, odd_rho) ==
    [even |-> [pk |-> convert_public_key(even_pk, even_rho),
               sk |-> convert_secret_key(even_sk, even_rho)],
     odd  |-> [pk |-> convert_public_key(odd_pk, odd_rho),
               sk |-> convert_secret_key(odd_sk, odd_rho)]]

InitRoot ==
    /\ r \in DacOrders
    /\ key_length \in 1..MaxEll
    /\ <<r, key_length>> \in DacSizes
    /\ \E xs \in Tuples(random_zp, key_length) :
         /\ initial_pk = dac_init(xs).pk
         /\ initial_sk = dac_init(xs).sk

(***************************************************************************)
(* One user: key_gen, then nym_gen on the keys and again on its own output.*)
(***************************************************************************)
InitNym ==
    /\ InitRoot
    /\ NoSigCaller
    /\ NoChain
    /\ NoNym

DacKeyGen ==
    /\ keys = <<>>
    /\ \E xe \in Tuples(random_zp, key_length), xo \in Tuples(random_zp, key_length) :
         keys' = dac_key_gen(xe, xo)
    /\ UNCHANGED <<r, sigvars, dacvars, rounds>>

NymGen ==
    /\ keys # <<>> /\ rounds < MaxNymRounds
    /\ \E even_rho \in random_zp, odd_rho \in random_zp :
         keys' = nym_gen(keys.even.pk, keys.even.sk, keys.odd.pk, keys.odd.sk,
                         even_rho, odd_rho)
    /\ rounds' = rounds + 1
    /\ UNCHANGED <<r, sigvars, dacvars>>

NextNym ==
    \/ DacKeyGen
    \/ NymGen

SpecNym == InitNym /\ [][NextNym]_vars

(***************************************************************************)
(* issue_first, issue_next and verify_chain.  issue_next works on the      *)
(* caller's two lists in place, so what it has stored when it raises stays *)
(* stored: its result is the lists as it leaves them, how it ended         *)
(* (raised), and the scheme it used for each link (used).                  *)
(***************************************************************************)
issue_first(initial_nym, y) ==
    LET sig1 == sign(even_issuer_scheme, initial_sk, initial_nym, y)
    IN  [err |-> sig1.err, nyms |-> <<initial_nym>>, sigs |-> <<sig1.sig>>]

\* the scheme of the link from nym_list[i] to nym_list[i + 1], i counted from 0
issue_next_scheme(i) == IF i % 2 = 0 THEN odd_issuer_scheme ELSE even_issuer_scheme

issue_next_new_scheme_flipped(len) == IF len % 2 = 0 THEN even_issuer_scheme ELSE odd_issuer_scheme

\* the scheme of the new link, from the length of nym_list after the append
issue_next_new_scheme(len) == IF len % 2 = 0 THEN odd_issuer_scheme ELSE even_issuer_scheme

verify_chain_scheme(i) == IF i % 2 = 0 THEN odd_issuer_scheme ELSE even_issuer_scheme

\* lines 115-121: the length assertion, then position 0 under initial_pk
issue_next_root(nl, sl) ==
    IF Len(nl) # Len(sl)
    THEN {[nyms |-> nl, sigs |-> sl, rho |-> 0, raised |-> "assert", used |-> <<>>,
           scaled |-> <<>>, converted |-> <<>>, sk_rho |-> -1, sk |-> <<>>]}
    ELSE { LET c == change_representation(initial_pk, nl[1], sl[1], rh, psi)
               nl2 == [nl EXCEPT ![1] = c.msg]
               sl2 == [sl EXCEPT ![1] = c.sig]
           IN  IF c.err
               THEN [nyms |-> nl, sigs |-> sl, rho |-> rh, raised |-> "invmodp",
                     used |-> <<even_issuer_scheme>>,
                     scaled |-> <<>>, converted |-> <<>>, sk_rho |-> -1, sk |-> <<>>]
               ELSE [nyms |-> nl2, sigs |-> sl2, rho |-> rh,
                     raised |-> IF verify(even_issuer_scheme, initial_pk, nl2[1], sl2[1])
                                THEN "no" ELSE "assert",
                     used |-> <<even_issuer_scheme>>,
                     scaled |-> <<rh>>, converted |-> <<>>, sk_rho |-> -1, sk |-> <<>>]
           : rh \in random_zp, psi \in random_zp }

issue_next_body_fresh_rho(i, st, psi_c, rh, psi_r) ==
    LET issuer_scheme == issue_next_scheme(i)
        sig_tilde == convert_signature(st.nyms[i + 1], st.nyms[i + 2], st.sigs[i + 2],
                                       rh, psi_c)
        c == change_representation(st.nyms[i + 1], st.nyms[i + 2], sig_tilde.sig, rh, psi_r)
        nl2 == [st.nyms EXCEPT ![i + 2] = c.msg]
        sl2 == [st.sigs EXCEPT ![i + 2] = c.sig]
        u2 == Append(st.used, issuer_scheme)
        cv2 == Append(st.converted, rh)
    IN  IF sig_tilde.err
        THEN [st EXCEPT !.raised = "invmodp", !.used = u2, !.converted = cv2]
        ELSE IF c.err
        THEN [st EXCEPT !.rho = rh, !.raised = "invmodp", !.used = u2, !.converted = cv2]
        ELSE [nyms |-> nl2, sigs |-> sl2, rho |-> rh,
              raised |-> IF verify(issuer_scheme, nl2[i + 1], nl2[i + 2], sl2[i + 2])
                         THEN "no" ELSE "assert",
              used |-> u2,
              scaled |-> Append(st.scaled, rh), converted |-> cv2, sk_rho |-> -1,
              sk |-> <<>>]

\* lines 123-133: one iteration of the loop, with its three draws
issue_next_body(i, st, psi_c, rh, psi_r) ==
    LET issuer_scheme == issue_next_scheme(i)
        sig_tilde == convert_signature(st.nyms[i + 1], st.nyms[i + 2], st.sigs[i + 2],
                                       st.rho, psi_c)
        c == change_representation(st.nyms[i + 1], st.nyms[i + 2], sig_tilde.sig, rh, psi_r)
        nl2 == [st.nyms EXCEPT ![i + 2] = c.msg]
        sl2 == [st.sigs EXCEPT ![i + 2] = c.sig]
        u2 == Append(st.used, issuer_scheme)
        cv2 == Append(st.converted, st.rho)
    IN  IF sig_tilde.err
        THEN [st EXCEPT !.raised = "invmodp", !.used = u2, !.converted = cv2]
        ELSE IF c.err
        THEN [st EXCEPT !.rho = rh, !.raised = "invmodp", !.used = u2, !.converted = cv2]
        ELSE [nyms |-> nl2, sigs |-> sl2, rho |-> rh,
              raised |-> IF verify(issuer_scheme, nl2[i + 1], nl2[i + 2], sl2[i + 2])
                         THEN "no" ELSE "assert",
              used |-> u2,
              scaled |-> Append(st.scaled, rh), converted |-> cv2, sk_rho |-> -1,
              sk |-> <<>>]

\* lines 122-133: for i in range(len(nym_list) - 1)
RECURSIVE issue_next_loop(_, _, _)
issue_next_loop(i, n, S) ==
    IF i > n - 2 THEN S
    ELSE issue_next_loop(i + 1, n,
           UNION { IF st.raised # "no" THEN {st}
                   ELSE { issue_next_body(i, st, psi_c, rh, psi_r) :
                            psi_c \in random_zp, rh \in random_zp, psi_r \in random_zp }
                   : st \in S })

issue_next_append_stale_rho(st, new_nym, sk, y) ==
    LET nl2 == Append(st.nyms, new_nym)
        issuer_scheme == issue_next_new_scheme(Len(nl2))
        sk2 == convert_secret_key(sk, 1)
        s == sign(issuer_scheme, sk2, new_nym, y)
        sl2 == Append(st.sigs, s.sig)
        u2 == Append(st.used, issuer_scheme)
    IN  IF s.err
        THEN [st EXCEPT !.nyms = nl2, !.raised = "invmodp", !.used = u2, !.sk_rho = 1,
                        !.sk = sk]
        ELSE [nyms |-> nl2, sigs |-> sl2, rho |-> st.rho,
              raised |-> IF verify(issuer_scheme, nl2[Len(nl2) - 1], nl2[Len(nl2)], sl2[Len(sl2)])
                         THEN "no" ELSE "assert",
              used |-> u2,
              scaled |-> st.scaled, converted |-> st.converted, sk_rho |-> 1, sk |-> sk]

issue_next_append_checked_first(st, new_nym, sk, y) ==
    LET nl2 == Append(st.nyms, new_nym)
        issuer_scheme == issue_next_new_scheme(Len(nl2))
        sk2 == convert_secret_key(sk, st.rho)
        s == sign(issuer_scheme, sk2, new_nym, y)
        sl2 == Append(st.sigs, s.sig)
        u2 == Append(st.used, issuer_scheme)
    IN  IF s.err
        THEN [st EXCEPT !.raised = "invmodp", !.used = u2, !.sk_rho = st.rho, !.sk = sk]
        ELSE IF ~verify(issuer_scheme, nl2[Len(nl2) - 1], nl2[Len(nl2)], sl2[Len(sl2)])
        THEN [st EXCEPT !.raised = "assert", !.used = u2, !.sk_rho = st.rho, !.sk = sk]
        ELSE [nyms |-> nl2, sigs |-> sl2, rho |-> st.rho, raised |-> "no", used |-> u2,
              scaled |-> st.scaled, converted |-> st.converted, sk_rho |-> st.rho, sk |-> sk]

\* lines 134-143: append the new pseudonym, sign it, append the signature
issue_next_append(st, new_nym, sk, y) ==
    LET nl2 == Append(st.nyms, new_nym)
        issuer_scheme == issue_next_new_scheme(Len(nl2))
        sk2 == convert_secret_key(sk, st.rho)
        s == sign(issuer_scheme, sk2, new_nym, y)
        sl2 == Append(st.sigs, s.sig)
        u2 == Append(st.used, issuer_scheme)
    IN  IF s.err
        THEN [st EXCEPT !.nyms = nl2, !.raised = "invmodp", !.used = u2, !.sk_rho = st.rho,
                        !.sk = sk]
        ELSE [nyms |-> nl2, sigs |-> sl2, rho |-> st.rho,
              raised |-> IF verify(issuer_scheme, nl2[Len(nl2) - 1], nl2[Len(nl2)], sl2[Len(sl2)])
                         THEN "no" ELSE "assert",
              used |-> u2,
              scaled |-> st.scaled, converted |-> st.converted, sk_rho |-> st.rho, sk |-> sk]

\* lines 115-133: every way the re-randomisation of the chain can end
issue_next_rerandomise(nl, sl) == issue_next_loop(0, Len(nl), issue_next_root(nl, sl))

\* every way issue_next(cred_chain, new_nym, sk) can end
issue_next(nl, sl, new_nym, sk) ==
    UNION { IF st.raised # "no" THEN {st}
            ELSE { issue_next_append(st, new_nym, sk, y) : y \in random_zp }
            : st \in issue_next_rerandomise(nl, sl) }

RECURSIVE verify_chain_loop_short(_, _, _, _)
verify_chain_loop_short(i, nl, sl, u) ==
    IF i > Len(nl) - 3 THEN [ret |-> "true", used |-> u]
    ELSE LET issuer_scheme == verify_chain_scheme(i)
             u2 == Append(u, issuer_scheme)
         IN  IF ~verify(issuer_scheme, nl[i + 1], nl[i + 2], sl[i + 2])
             THEN [ret |-> "false", used |-> u2]
             ELSE verify_chain_loop_short(i + 1, nl, sl, u2)

\* lines 161-167: the loop of verify_chain from link i on, with its early return
RECURSIVE verify_chain_loop(_, _, _, _)
verify_chain_loop(i, nl, sl, u) ==
    IF i > Len(nl) - 2 THEN [ret |-> "true", used |-> u]
    ELSE LET issuer_scheme == verify_chain_scheme(i)
             u2 == Append(u, issuer_scheme)
         IN  IF ~verify(issuer_scheme, nl[i + 1], nl[i + 2], sl[i + 2])
             THEN [ret |-> "false", used |-> u2]
             ELSE verify_chain_loop(i + 1, nl, sl, u2)

verify_chain(nl, sl) ==
    IF Len(nl) # Len(sl) THEN [ret |-> "raised", used |-> <<>>]
    ELSE IF ~verify(even_issuer_scheme, initial_pk, nl[1], sl[1])
    THEN [ret |-> "false", used |-> <<even_issuer_scheme>>]
    ELSE verify_chain_loop(0, nl, sl, <<even_issuer_scheme>>)

(***************************************************************************)
(* The caller of the credential scheme: users join one after the other,    *)
(* each with fresh keys and pseudonyms, and the chain is verified.         *)
(***************************************************************************)
InitDac ==
    /\ InitRoot
    /\ NoSigCaller
    /\ NoChain
    /\ NoNym

\* chains of MaxChain links are extended once more only from this sample: a
\* verified legal chain whose pseudonyms and signature components all have
\* logarithm 1
LongChainSample ==
    /\ legal /\ chain_result = "true"
    /\ \A i \in 1..Len(nym_list) :
         /\ \A k \in 1..key_length : nym_list[i][k].d = 1
         /\ \A c \in 1..3 : sig_list[i][c].d = 1

\* the user joining at position Len(nym_list) keeps the pseudonym of the scheme
\* that position's link signs messages for; the pair of the other scheme is
\* dropped, so only the draws of the kept pair are enumerated
NewUser ==
    /\ user = <<>>
    /\ \/ Len(nym_list) < MaxChain
       \/ Len(nym_list) = MaxChain /\ LongChainSample
    /\ (Len(nym_list) + 1) * key_length <= MaxCells
    /\ \/ nym_list = <<>> /\ raised = "no"
       \/ legal /\ chain_result = "true"
       \/ chain_result = "raised"
    /\ \E xs \in Tuples(random_zp, key_length), rh \in random_zp :
         LET other == [i \in 1..key_length |-> 1]
             odd == (Len(nym_list) % 2 = 0)
             k == IF odd THEN dac_key_gen(other, xs) ELSE dac_key_gen(xs, other)
             n == IF odd
                  THEN nym_gen(k.even.pk, k.even.sk, k.odd.pk, k.odd.sk, 1, rh)
                  ELSE nym_gen(k.even.pk, k.even.sk, k.odd.pk, k.odd.sk, rh, 1)
         IN  user' = IF odd THEN n.odd ELSE n.even
    /\ UNCHANGED <<r, sigvars, nymvars, key_length, initial_pk, initial_sk, nym_list,
                   sig_list, holder_sk, chain_result, raised, used, legal, scalars>>

IssueFirstKeepingNym ==
    /\ user # <<>> /\ nym_list = <<>> /\ raised = "no"
    /\ \E y \in random_zp :
         LET c == issue_first(user.pk, y)
         IN  IF c.err
             THEN /\ raised' = "invmodp"
                  /\ legal' = FALSE
                  /\ UNCHANGED <<nym_list, sig_list, holder_sk, used>>
             ELSE /\ nym_list' = c.nyms
                  /\ sig_list' = c.sigs
                  /\ holder_sk' = user.sk
                  /\ used' = <<even_issuer_scheme>>
                  /\ UNCHANGED <<raised, legal>>
    /\ initial_pk' = user.pk
    /\ user' = <<>>
    /\ chain_result' = "none"
    /\ scalars' = NoScalars
    /\ UNCHANGED <<r, sigvars, nymvars, key_length, initial_sk>>

IssueFirst ==
    /\ user # <<>> /\ nym_list = <<>> /\ raised = "no"
    /\ \E y \in random_zp :
         LET c == issue_first(user.pk, y)
         IN  IF c.err
             THEN /\ raised' = "invmodp"
                  /\ legal' = FALSE
                  /\ UNCHANGED <<nym_list, sig_list, holder_sk, used>>
             ELSE /\ nym_list' = c.nyms
                  /\ sig_list' = c.sigs
                  /\ holder_sk' = user.sk
                  /\ used' = <<even_issuer_scheme>>
                  /\ UNCHANGED <<raised, legal>>
    /\ user' = <<>>
    /\ chain_result' = "none"
    /\ scalars' = NoScalars
    /\ UNCHANGED <<r, sigvars, nymvars, key_length, initial_pk, initial_sk>>

\* the caller passes the key of the last pseudonym's holder, or by mistake the
\* new user's own key
IssueNext ==
    /\ user # <<>> /\ nym_list # <<>>
    /\ LET rerandomised == issue_next_rerandomise(nym_list, sig_list)
       IN  \E st0 \in rerandomised :
             IF st0.raised # "no"
             THEN /\ nym_list' = st0.nyms
                  /\ sig_list' = st0.sigs
                  /\ raised' = st0.raised
                  /\ used' = st0.used
                  /\ scalars' = [scaled |-> st0.scaled, converted |-> st0.converted,
                                 sk_rho |-> st0.sk_rho, sk |-> st0.sk]
                  /\ legal' = (legal /\ st0.raised # "invmodp")
             ELSE \E sk \in {holder_sk, user.sk}, y \in random_zp :
                    LET st == issue_next_append(st0, user.pk, sk, y)
                    IN  /\ nym_list' = st.nyms
                        /\ sig_list' = st.sigs
                        /\ raised' = st.raised
                        /\ used' = st.used
                        /\ scalars' = [scaled |-> st.scaled, converted |-> st.converted,
                                       sk_rho |-> st.sk_rho, sk |-> st.sk]
                        /\ legal' = (legal /\ sk = holder_sk /\ st.raised # "invmodp")
    /\ holder_sk' = user.sk
    /\ user' = <<>>
    /\ chain_result' = "none"
    /\ UNCHANGED <<r, sigvars, nymvars, key_length, initial_pk, initial_sk>>

VerifyChain ==
    /\ nym_list # <<>> /\ chain_result = "none"
    /\ LET v == verify_chain(nym_list, sig_list)
       IN  /\ chain_result' = v.ret
           /\ used' = v.used
           /\ raised' = IF v.ret = "raised" THEN "assert" ELSE "no"
           /\ scalars' = NoScalars
    /\ UNCHANGED <<r, sigvars, nymvars, key_length, initial_pk, initial_sk, nym_list,
                   sig_list, user, holder_sk, legal>>

\* the caller hands verify_chain a chain in which one signature's z was replaced
Tamper ==
    /\ legal /\ user = <<>> /\ nym_list # <<>>
    /\ chain_result = "true"
    /\ \E i \in 1..Len(sig_list) :
         sig_list' = [sig_list EXCEPT ![i][1] = Add(@, [g |-> @.g, d |-> 1])]
    /\ legal' = FALSE
    /\ chain_result' = "none"
    /\ UNCHANGED <<r, sigvars, nymvars, key_length, initial_pk, initial_sk, nym_list,
                   user, holder_sk, raised, used, scalars>>

NextDac ==
    \/ NewUser
    \/ IssueFirst
    \/ IssueNext
    \/ VerifyChain
    \/ Tamper

SpecDac == InitDac /\ [][NextDac]_vars

\* sk is a secret key of the pseudonym nym: nym[k] = sk[k] * G for the generator
\* G of the group nym lies in
IsSecretKeyOf(sk, nym) ==
    /\ Len(sk) = Len(nym)
    /\ \A k \in 1..Len(nym) : nym[k] = Mul(sk[k], [g |-> nym[k].g, d |-> 1])

(***************************************************************************)
(* Properties of the signature schemes, checked under SpecSig.             *)
(***************************************************************************)

ForgeryAlwaysRejected ==
    (forged # 0 /\ result # "none") => result = "false"

\* C5 as amended: the forgery is rejected whenever the secret-key scalar at the
\* replaced index is nonzero modulo r and, for a converted signature, rho is
\* nonzero.
ForgeryRejected ==
    ( /\ forged # 0 /\ result # "none"
      /\ secret_key[forged] % r # 0
      /\ origin = "convert" => rho # 0 ) => result = "false"

ForgeryWitness ==
    /\ forged = 2 /\ result = "false" /\ origin = "convert"
    /\ scheme = "dual" /\ r = 5 /\ rho = 2
    /\ secret_key[1] # 0 /\ secret_key[2] # 0

SignLengthMismatchRaises ==
    origin = "sign_mismatched" => (outcome = "raised" /\ signature = NoSig)

\* sign on an empty message does raise: reduce has nothing to start from
SignEmptyMessageRaises ==
    (origin = "sign_mismatched" /\ messages = <<>>) => (outcome = "raised" /\ signature = NoSig)

SignEmptyMessageWitness ==
    /\ origin = "sign_mismatched" /\ messages = <<>> /\ outcome = "raised"
    /\ Len(secret_key) = 2 /\ ~zero_drawn

(***************************************************************************)
(* Properties of key_gen and nym_gen, checked under SpecNym.               *)
(***************************************************************************)

\* the key-pair invariant: pk[i] = sk[i] * G for the generator G of the group
\* the scheme's public keys live in (phat for the primary scheme, p for the dual)
KeyGenerator(s) == IF s = "primary" THEN phat ELSE p

KeyPairInvariant(s, kp) ==
    /\ Len(kp.pk) = Len(kp.sk)
    /\ \A i \in 1..Len(kp.pk) : kp.pk[i] = Mul(kp.sk[i], KeyGenerator(s))

\* C8: both pairs nym_gen returns satisfy the key-pair invariant, also when
\* nym_gen is applied to its own output.
NymGenKeepsKeyPairs ==
    rounds >= 1 =>
        /\ KeyPairInvariant(even_issuer_scheme, keys.even)
        /\ KeyPairInvariant(odd_issuer_scheme, keys.odd)

NymGenWitness ==
    /\ rounds = 2 /\ r = 3 /\ key_length = 2
    /\ keys.even.sk[1] > 3 /\ keys.even.sk[2] % 3 = 2
    /\ keys.odd.sk[1] % 3 = 1 /\ keys.odd.sk[2] > 3
    /\ keys.even.pk[1].d # 0 /\ keys.odd.pk[2].d # 0

(***************************************************************************)
(* Properties of the credential chain, checked under SpecDac.              *)
(***************************************************************************)

LinkScheme(i) == IF i % 2 = 0 THEN "primary" ELSE "dual"

LinkVerifies(i) == verify(LinkScheme(i), nym_list[i + 1], nym_list[i + 2], sig_list[i + 2])

RootLinkVerifies == verify("dual", initial_pk, nym_list[1], sig_list[1])

\* C6: on a chain of equal lengths verify_chain returns true if and only if
\* the root link and every link i in 0..n-2 verify, and it returns false
\* (it does not raise) when a link fails.
VerifyChainIffAllLinks ==
    (chain_result # "none" /\ Len(nym_list) = Len(sig_list)) =>
        chain_result = IF RootLinkVerifies /\ \A i \in 0..(Len(nym_list) - 2) : LinkVerifies(i)
                       THEN "true" ELSE "false"

VerifyChainFalseWitness ==
    /\ chain_result = "false" /\ raised = "no" /\ Len(nym_list) = 3 /\ Len(sig_list) = 3
    /\ RootLinkVerifies /\ LinkVerifies(0) /\ ~LinkVerifies(1)

\* the scheme a stored signature belongs to: z lies in G1 for the primary scheme
SigScheme(sig) == IF sig[1].g = 1 THEN "primary" ELSE "dual"

RootImmutable ==
    [][/\ key_length' = key_length
       /\ initial_pk' = initial_pk
       /\ initial_sk' = initial_sk]_vars

RootImmutableWitness ==
    /\ raised = "assert" /\ Len(nym_list) = 3 /\ Len(sig_list) = 3
    /\ initial_sk[1] # 0
    /\ nym_list[1] # initial_pk

\* C11, for issue_next and verify_chain: called with |nym_list| # |sig_list|,
\* issue_next raises at its first assertion and leaves both lists as they were,
\* and verify_chain raises instead of returning a boolean.
ChainLengthMismatchRaises ==
    [][Len(nym_list) # Len(sig_list) =>
         /\ (user # <<>> /\ user' = <<>>) =>
              (raised' = "assert" /\ used' = <<>> /\ nym_list' = nym_list /\ sig_list' = sig_list)
         /\ (chain_result = "none" /\ chain_result' # "none") =>
              (chain_result' = "raised" /\ raised' = "assert")]_vars

ChainLengthMismatchWitness ==
    /\ Len(nym_list) = 2 /\ Len(sig_list) = 1
    /\ raised = "assert" /\ used = <<>> /\ user = <<>> /\ chain_result = "none"

ReachedFinalAssertion ==
    /\ user # <<>> /\ user' = <<>> /\ nym_list # <<>>
    /\ scalars'.sk_rho # -1 /\ raised' \in {"no", "assert"}

\* what issue_next has done to the caller's lists by then: every earlier
\* pseudonym rescaled, new_nym and one signature appended, sk as it was
ChangedInPlace ==
    LET n == Len(nym_list)
    IN  /\ Len(nym_list') = n + 1 /\ Len(sig_list') = n + 1
        /\ \A i \in 1..n :
             nym_list'[i] = [k \in 1..key_length |-> Mul(scalars'.scaled[i], nym_list[i][k])]
        /\ nym_list'[n + 1] = user.pk
        /\ scalars'.sk \in {holder_sk, user.sk}

\* the point sign multiplies by y: the sum of rho * sk[k] * new_nym[k]
SignedPoint(sk, rh, new_nym) ==
    reduce_add([k \in 1..Len(new_nym) |-> Mul(rh * sk[k], new_nym[k])])

====
